---- MODULE Spec2Model ----
(***************************************************************************)
(* Vinegere: the Vigenere cipher engine (src/vigenere.js) and the Kasiski  *)
(* analyzer (src/kasiski.js and the bundled variant src/unnamed/part_000). *)
(*                                                                         *)
(* A JavaScript string is a sequence of UTF-16 code units, so a string is  *)
(* modelled as a sequence of character codes; a character is a string of   *)
(* length one and "" is the empty sequence.  charCodeAt / fromCharCode are *)
(* then the projections between a one-element sequence and its code.       *)
(***************************************************************************)
EXTENDS Integers, Sequences, FiniteSets, TLC

VARIABLES cryptotext, key, plaintext, ciphertext, linked, last, test

vars == <<cryptotext, key, plaintext, ciphertext, linked, last, test>>

(***************************************************************************)
(* Bounds of the model.                                                    *)
(***************************************************************************)
MaxTextLen == 2
MaxLength == 2
MaxPeriod == 5
MaxKasiskiLen == 26

(***************************************************************************)
(* JavaScript primitives.                                                  *)
(***************************************************************************)
SPACE == <<32>>

\* Truthiness of a string: only "" is falsy.
Truthy(s) == Len(s) > 0

\* a || b on strings
OrElse(a, b) == IF Truthy(a) THEN a ELSE b

\* The % operator of JavaScript truncates towards zero: the sign of the
\* result is the sign of the dividend.
JsMod(a, b) == IF a >= 0 THEN a % b ELSE 0 - ((0 - a) % b)

\* String.prototype.toUpperCase on the ASCII range: a-z map to A-Z, every
\* other code unit is kept.
upperCode(n) == IF n >= 97 /\ n <= 122 THEN n - 32 ELSE n

toUpperCase(s) == [i \in 1..Len(s) |-> upperCode(s[i])]

\* String.prototype.charAt with a 0-based index: "" when out of range.
charAt(s, i) == IF i >= 0 /\ i < Len(s) THEN <<s[i + 1]>> ELSE <<>>

\* x.match(/^[A-Z]$/): x is exactly one code unit in A..Z.
matchUpper(x) == Len(x) = 1 /\ x[1] >= 65 /\ x[1] <= 90

\* String.fromCharCode: ToUint16 of the number, as a one-character string.
fromCharCode(n) == <<n % 65536>>

(***************************************************************************)
(* Modular alphabet arithmetic.                                            *)
(***************************************************************************)
cyclicPlus(x, c) ==
    IF matchUpper(x) /\ matchUpper(c)
    THEN fromCharCode(JsMod(x[1] + c[1] - 65 * 2, 26) + 65)
    ELSE x

\* cyclicMinus without the + 26 that keeps the dividend of % non-negative.
cyclicMinusNoBias(x, c) ==
    IF matchUpper(x) /\ matchUpper(c)
    THEN fromCharCode(JsMod(x[1] - c[1], 26) + 65)
    ELSE x

cyclicMinus(x, c) ==
    IF matchUpper(x) /\ matchUpper(c)
    THEN fromCharCode(JsMod(x[1] - c[1] + 26, 26) + 65)
    ELSE x

(***************************************************************************)
(* encrypt / decrypt: the loop over the working text, appending one        *)
(* combined character per position i, the key read at i % key.length.      *)
(***************************************************************************)
\* encryptLoop with a key cursor that counts letters only: the key is read
\* at the number of upper-case letters before position i.
RECURSIVE encryptLoopLetterCursor(_, _, _, _)
encryptLoopLetterCursor(text, k, i, acc) ==
    IF i < Len(text)
    THEN encryptLoopLetterCursor(text, k, i + 1,
             acc \o cyclicPlus(charAt(text, i),
                               charAt(k, JsMod(Cardinality({j \in 0..(i - 1) :
                                                   matchUpper(charAt(text, j))}),
                                               Len(k)))))
    ELSE acc

RECURSIVE encryptLoop(_, _, _, _)
encryptLoop(text, k, i, acc) ==
    IF i < Len(text)
    THEN encryptLoop(text, k, i + 1,
                     acc \o cyclicPlus(charAt(text, i), charAt(k, JsMod(i, Len(k)))))
    ELSE acc

RECURSIVE decryptLoop(_, _, _, _)
decryptLoop(text, k, i, acc) ==
    IF i < Len(text)
    THEN decryptLoop(text, k, i + 1,
                     acc \o cyclicMinus(charAt(text, i), charAt(k, JsMod(i, Len(k)))))
    ELSE acc

\* var key = newKey || this.key
effectiveKey(newKey, stored) == OrElse(newKey, stored)

encryptText(text, newKey, stored) == encryptLoop(text, effectiveKey(newKey, stored), 0, <<>>)

decryptText(text, newKey, stored) == decryptLoop(text, effectiveKey(newKey, stored), 0, <<>>)

(***************************************************************************)
(* The expected letter frequencies.  The source holds them as unit ratios  *)
(* in double precision; the model holds them in fixed point, in units of   *)
(* 1/10000 (0.08000395 is 800), indexed by the letter's offset from "A".   *)
(* All floating-point quantities below (proportions, chi-squared scores)   *)
(* are in the same unit; they are never negative, and the result of 0/0    *)
(* is the distinguished value NaN, which no number equals.                 *)
(***************************************************************************)
letterFrequencies ==
    <<800, 154, 258, 432, 1258, 235, 198, 624, 692, 15, 74, 406, 256,
      690, 759, 180, 12, 596, 634, 909, 284, 98, 222, 18, 190, 8>>

\* The keys of letterFrequencies in for...in order: "A" .. "Z".
Letters == [n \in 1..26 |-> <<64 + n>>]

NaN == -1

isNaN(v) == v = NaN

\* count / total in floating point: NaN for 0/0 (counts are never negative
\* and a positive count implies a positive total).
Divide(count, total) == IF total = 0 THEN NaN ELSE (count * 10000) \div total

\* Math.pow(observed - expected, 2) / expected
Deviation(observed, expected) ==
    IF isNaN(observed) THEN NaN
    ELSE ((observed - expected) * (observed - expected)) \div expected

\* score += term, NaN being absorbing.
AddScore(score, term) == IF isNaN(score) \/ isNaN(term) THEN NaN ELSE score + term

(***************************************************************************)
(* frequencies(columns, cryptotext): per column, the count of each letter, *)
(* the letter total, the proportions and the chi-squared score.            *)
(***************************************************************************)
\* Positions of the text that fall in the column and hold the letter.
columnCount(text, columns, column, letter) ==
    Cardinality({i \in 0..(Len(text) - 1) :
                    /\ JsMod(i, columns) = column
                    /\ charAt(text, i) = letter})

\* Positions of the text that fall in the column and hold an upper-case letter.
columnTotal(text, columns, column) ==
    Cardinality({i \in 0..(Len(text) - 1) :
                    /\ JsMod(i, columns) = column
                    /\ matchUpper(charAt(text, i))})

\* The loop over the letters: each proportion (count / total), and the
\* deviations summed into the score.
RECURSIVE scoreLoop(_, _, _)
scoreLoop(proportions, n, score) ==
    IF n > 26 THEN score
    ELSE scoreLoop(proportions, n + 1,
                   AddScore(score, Deviation(proportions[n], letterFrequencies[n])))

columnProportions(text, columns, column, total) ==
    SubSeq([n \in 1..26 |->
               Divide(columnCount(text, columns, column, Letters[n]), total)], 1, 26)

columnScored(total, proportions) ==
    [total |-> total,
     proportions |-> proportions,
     score |-> scoreLoop(proportions, 1, 0)]

columnTotalled(text, columns, column, total) ==
    columnScored(total, columnProportions(text, columns, column, total))

columnFrequency(text, columns, column) ==
    columnTotalled(text, columns, column, columnTotal(text, columns, column))

\* columns = columns || 1; cryptotext = cryptotext || this.cryptotext
frequencies(columns, text, working) ==
    LET cols == IF columns = 0 THEN 1 ELSE columns
        txt == OrElse(text, working)
    IN  [column \in 0..(cols - 1) |-> columnFrequency(txt, cols, column)]

(***************************************************************************)
(* Kasiski analyzer.                                                       *)
(***************************************************************************)
\* gapFactors with the loop running up to n - 1: every non-trivial factor.
gapFactorsNonTrivial(n) == {i \in 2..n : i < n /\ n % i = 0}

\* The i of "for (var i = 2; i <= Math.sqrt(n); i++)" with n % i === 0.
gapFactors(n) == {i \in 2..n : i * i <= n /\ n % i = 0}

\* String.prototype.substring(from, to) for 0 <= from <= to <= length.
substring(s, from, to) == SubSeq(s, from + 1, to)

occursAt(text, candidate, j) ==
    /\ j + Len(candidate) <= Len(text)
    /\ \A d \in 1..Len(candidate) : text[j + d] = candidate[d]

\* String.prototype.indexOf(candidate, from): the first index >= from at
\* which the candidate occurs, -1 if there is none.
RECURSIVE indexOf(_, _, _)
indexOf(text, candidate, from) ==
    IF from + Len(candidate) > Len(text) THEN -1
    ELSE IF occursAt(text, candidate, from) THEN from
    ELSE indexOf(text, candidate, from + 1)

\* One match of the do ... while loop: the occurrence pushed under the
\* candidate, then the search resumed k past the match.
RECURSIVE chainFrom(_, _, _, _)
\* chainMatch resuming the search one past the match's start, so that the
\* next match may overlap it.
chainMatchOverlapping(text, k, startIndex, nextIndex) ==
    IF nextIndex > -1
    THEN <<[substring |-> substring(text, startIndex, startIndex + k),
            indexOfAppearance |-> startIndex,
            gapToNextAppearance |-> nextIndex - startIndex]>>
         \o chainFrom(text, k, startIndex, nextIndex + 1)
    ELSE <<>>

chainMatch(text, k, startIndex, nextIndex) ==
    IF nextIndex > -1
    THEN <<[substring |-> substring(text, startIndex, startIndex + k),
            indexOfAppearance |-> startIndex,
            gapToNextAppearance |-> nextIndex - startIndex]>>
         \o chainFrom(text, k, startIndex, nextIndex + k)
    ELSE <<>>

chainFrom(text, k, startIndex, searchIndex) ==
    chainMatch(text, k, startIndex,
               indexOf(text, substring(text, startIndex, startIndex + k), searchIndex))

\* The do ... while loop for one startIndex, searching from past the end of
\* the substring: the occurrences it records, in order.
chainLoop(text, k, startIndex) == chainFrom(text, k, startIndex, startIndex + k)

\* for (startIndex = 0; startIndex < length - 2*k; startIndex++): what the
\* iterations from startIndex on record, in order.
RECURSIVE startLoop(_, _, _)
startLoop(text, k, startIndex) ==
    IF startIndex < Len(text) - 2 * k
    THEN chainLoop(text, k, startIndex) \o startLoop(text, k, startIndex + 1)
    ELSE <<>>

\* for (k = 2; k < Math.floor(length / 2); k++): what the iterations from k
\* on record, in order.
RECURSIVE lengthLoop(_, _)
lengthLoop(text, k) ==
    IF k < Len(text) \div 2
    THEN startLoop(text, k, 0) \o lengthLoop(text, k + 1)
    ELSE <<>>

\* Every occurrence recorded, in the order recorded.
recorded(text) == lengthLoop(text, 2)

\* substringTable[candidate]: the occurrences pushed under the candidate.
occurrencesOf(log, candidate) ==
    LET own == SelectSeq(log, LAMBDA r : r.substring = candidate)
    IN  [n \in 1..Len(own) |->
            [indexOfAppearance |-> own[n].indexOfAppearance,
             gapToNextAppearance |-> own[n].gapToNextAppearance]]

\* factorTable[gap] after factorGap ran on every recorded gap: created on
\* the first, its frequency incremented on each later one.
gapEntry(log, gap) ==
    [frequency |-> Cardinality({n \in 1..Len(log) : log[n].gapToNextAppearance = gap}),
     factorList |-> gapFactors(gap)]

tablesOf(log) ==
    [substringTable |->
         [candidate \in {log[n].substring : n \in 1..Len(log)} |->
             occurrencesOf(log, candidate)],
     factorTable |->
         [gap \in {log[n].gapToNextAppearance : n \in 1..Len(log)} |->
             gapEntry(log, gap)]]

emptyTable == [x \in {} |-> x]

recurrenceSearch(text) == tablesOf(recorded(text))

\* The keys of a sparse array in for...in order: ascending.
RECURSIVE ascending(_)
ascending(S) ==
    IF S = {} THEN <<>>
    ELSE LET m == CHOOSE x \in S : \A y \in S : x <= y
         IN  <<m>> \o ascending(S \ {m})

\* The inner loop of the aggregation: one gap's frequency added to each of
\* the gap's recorded factors.
RECURSIVE addFactors(_, _, _, _)
addFactors(factors, n, frequency, candidateFreqs) ==
    IF n > Len(factors) THEN candidateFreqs
    ELSE LET factor == factors[n]
         IN  addFactors(factors, n + 1, frequency,
                 IF factor \in DOMAIN candidateFreqs
                 THEN [candidateFreqs EXCEPT ![factor].frequency = @ + frequency]
                 ELSE [f \in DOMAIN candidateFreqs \cup {factor} |->
                         IF f = factor
                         THEN [factor |-> factor, frequency |-> frequency]
                         ELSE candidateFreqs[f]])

RECURSIVE addGaps(_, _, _, _)
addGaps(factorTable, gaps, n, candidateFreqs) ==
    IF n > Len(gaps) THEN candidateFreqs
    ELSE addGaps(factorTable, gaps, n + 1,
                 addFactors(ascending(factorTable[gaps[n]].factorList), 1,
                            factorTable[gaps[n]].frequency, candidateFreqs))

\* compareRanks with its operands exchanged: smallest frequencies first.
compareRanksAscending(x, y) == x.frequency - y.frequency

\* function compare(x, y){ return y.frequency - x.frequency; }
compareRanks(x, y) == y.frequency - x.frequency

\* frequencyRanks.sort(compare), as ECMAScript specifies Array.prototype.sort:
\* a stable sort of the defined elements (the holes of the sparse array go
\* last).  y goes after every element that does not compare greater than it.
RECURSIVE insertRank(_, _)
insertRank(sorted, y) ==
    IF Len(sorted) = 0 THEN <<y>>
    ELSE IF compareRanks(sorted[Len(sorted)], y) <= 0
         THEN Append(sorted, y)
         ELSE Append(insertRank(SubSeq(sorted, 1, Len(sorted) - 1), y),
                     sorted[Len(sorted)])

RECURSIVE sortRanksLoop(_, _, _)
sortRanksLoop(list, n, acc) ==
    IF n > Len(list) THEN acc
    ELSE sortRanksLoop(list, n + 1, insertRank(acc, list[n]))

sortRanks(list) == sortRanksLoop(list, 1, <<>>)

\* while (frequencyRanks[firstKeyLengthIndex].factor < 4) firstKeyLengthIndex++;
\* Reading .factor of an element past the defined ones is a TypeError,
\* reported here as the index 0 - 1.
RECURSIVE skipShortIndex(_, _)
skipShortIndex(frequencyRanks, index) ==
    IF index > Len(frequencyRanks) THEN -1
    ELSE IF frequencyRanks[index].factor < 4
         THEN skipShortIndex(frequencyRanks, index + 1)
         ELSE index

\* The bundled variant reads frequencyRanks[0] without skipping.
firstIndex(frequencyRanks) == IF Len(frequencyRanks) = 0 THEN -1 ELSE 1

firstKeyLengthIndex(variant, frequencyRanks) ==
    IF variant = "kasiski.js"
    THEN skipShortIndex(frequencyRanks, 1)
    ELSE firstIndex(frequencyRanks)

\* The ranking: frequencyRanks[factor] points at candidateFreqs[factor];
\* the defined elements, in index order, sorted.
rankedOf(candidateFreqs, unranked) ==
    sortRanks(SubSeq([n \in 1..Len(unranked) |-> candidateFreqs[unranked[n]]],
                     1, Len(unranked)))

examinationOf(variant, results, candidateFreqs, frequencyRanks, index) ==
    IF index = -1
    THEN [thrown |-> "TypeError"]
    ELSE [thrown |-> "",
          substringTable |-> results.substringTable,
          factorTable |-> results.factorTable,
          candidateFreqs |-> candidateFreqs,
          frequencyRanks |-> frequencyRanks,
          firstKeyLength |-> frequencyRanks[index].factor]

examinationRanked(variant, results, candidateFreqs, frequencyRanks) ==
    examinationOf(variant, results, candidateFreqs, frequencyRanks,
                  firstKeyLengthIndex(variant, frequencyRanks))

examinationAggregated(variant, results, candidateFreqs) ==
    examinationRanked(variant, results, candidateFreqs,
                      rankedOf(candidateFreqs, ascending(DOMAIN candidateFreqs)))

examinationSearched(variant, results) ==
    examinationAggregated(variant, results,
        addGaps(results.factorTable, ascending(DOMAIN results.factorTable), 1, emptyTable))

kasiskiExamination(variant, text) == examinationSearched(variant, recurrenceSearch(text))

(***************************************************************************)
(* Key recovery: smashKey.                                                 *)
(***************************************************************************)
\* candidateTable[column] after the loop over the 26 shift letters: one
\* {letter, score} per letter, the score that of the column in the text
\* decrypted with that letter as a uniform key.
columnCandidates(text, stored, length, column) ==
    SubSeq([n \in 1..26 |->
               [letter |-> Letters[n],
                score |-> frequencies(length, decryptText(text, Letters[n], stored),
                                      text)[column].score]], 1, 26)

\* function compare(x, y){ return x.score - y.score; }
\* A difference with a NaN operand is NaN, which sort takes as +0.
compare(x, y) == IF isNaN(x.score) \/ isNaN(y.score) THEN 0 ELSE x.score - y.score

\* candidateTable[column].sort(compare): a stable sort, as above.
RECURSIVE insertCandidate(_, _)
insertCandidate(sorted, y) ==
    IF Len(sorted) = 0 THEN <<y>>
    ELSE IF compare(sorted[Len(sorted)], y) <= 0
         THEN Append(sorted, y)
         ELSE Append(insertCandidate(SubSeq(sorted, 1, Len(sorted) - 1), y),
                     sorted[Len(sorted)])

RECURSIVE sortCandidatesLoop(_, _, _)
sortCandidatesLoop(list, n, acc) ==
    IF n > Len(list) THEN acc
    ELSE sortCandidatesLoop(list, n + 1, insertCandidate(acc, list[n]))

sortCandidates(list) == sortCandidatesLoop(list, 1, <<>>)

\* firstKeyLoop reading the last entry of each column's list.
RECURSIVE firstKeyLoopLast(_, _, _)
firstKeyLoopLast(candidateTable, column, firstKey) ==
    IF column < Len(candidateTable)
    THEN firstKeyLoopLast(candidateTable, column + 1,
             firstKey \o candidateTable[column + 1][Len(candidateTable[column + 1])].letter)
    ELSE firstKey

\* firstKey += candidateTable[column][0].letter, column by column.
RECURSIVE firstKeyLoop(_, _, _)
firstKeyLoop(candidateTable, column, firstKey) ==
    IF column < Len(candidateTable)
    THEN firstKeyLoop(candidateTable, column + 1,
                      firstKey \o candidateTable[column + 1][1].letter)
    ELSE firstKey

\* length = length || this.kasiskiExamination().firstKeyLength || 1 when the
\* analyzer is linked, length || 1 otherwise; 0 stands for an omitted length.
\* The examination runs (and may throw) only when length is falsy.
smashKeyLength(variant, text, length) ==
    IF length # 0 THEN [thrown |-> "", length |-> length]
    ELSE IF variant = "none" THEN [thrown |-> "", length |-> 1]
    ELSE LET examination == kasiskiExamination(variant, text)
         IN  IF examination.thrown # ""
             THEN [thrown |-> examination.thrown]
             ELSE [thrown |-> "", length |-> examination.firstKeyLength]

\* options = Math.min(options || 3, 26); 0 stands for omitted options.
\* The value is computed and never read: every candidate list is returned
\* whole.
smashKeyOptions(options) ==
    LET given == IF options = 0 THEN 3 ELSE options
    IN  IF given < 26 THEN given ELSE 26

smashKeyResult(candidateTable) ==
    [thrown |-> "",
     candidateTable |-> candidateTable,
     firstKey |-> firstKeyLoop(candidateTable, 0, <<>>)]

smashKey(variant, text, stored, length, options) ==
    LET chosen == smashKeyLength(variant, text, length)
    IN  IF chosen.thrown # "" THEN [thrown |-> chosen.thrown]
        ELSE smashKeyResult(
                 SubSeq([column \in 1..chosen.length |->
                            sortCandidates(columnCandidates(text, stored, chosen.length,
                                                            column - 1))],
                        1, chosen.length))

\* assemble(combination): the letter of every column at the given rank.
RECURSIVE assembleLoop(_, _, _, _)
assembleLoop(candidateTable, combination, column, newKey) ==
    IF column < Len(candidateTable)
    THEN assembleLoop(candidateTable, combination, column + 1,
             newKey \o candidateTable[column + 1][combination[column + 1] + 1].letter)
    ELSE newKey

assemble(candidateTable, combination) == assembleLoop(candidateTable, combination, 0, <<>>)

(***************************************************************************)
(* Inputs.                                                                 *)
(***************************************************************************)
\* "A", "Z", "b", " ": both ends of the alphabet, a lower-case letter and a
\* character that is no letter.
TextChars == {65, 90, 98, 32}

StringsOver(chars, maxLen) == UNION {[1..n -> chars] : n \in 0..maxLen}

InputTexts == StringsOver(TextChars, MaxTextLen)

\* Keys made only of letters: "B", "b", "BZ", "Zb".
LetterKeys == {<<66>>, <<98>>, <<66, 90>>, <<90, 98>>}

\* "" is an omitted key, " " the identity key.
InputKeys == LetterKeys \cup {<<>>, SPACE}

\* The first n characters of the block "ABC..." of the given period,
\* repeated: a text whose content repeats with that period.
periodicText(period, n) == [i \in 1..n |-> 65 + ((i - 1) % period)]

\* "AB", then the letters that follow in the alphabet, then "AB" again at
\* the given distance (at most 26): a text with one repetition.
repeatedPairText(gap) == [i \in 1..(gap + 2) |-> IF i > gap THEN 64 + i - gap ELSE 64 + i]

\* The distances of the single repetition: 12 = 2 * 2 * 3 and 16 = 2^4, each
\* with two recorded factors of the same frequency.
PairGaps == {12, 16}

KasiskiTexts ==
    {periodicText(period, n) : period \in 1..MaxPeriod, n \in 0..MaxKasiskiLen}
        \cup {repeatedPairText(gap) : gap \in PairGaps}

\* The text given to frequencies: omitted (the working text is read), or
\* "bA", whose first character is no upper-case letter.
FrequencyTexts == {<<>>, <<98, 65>>}

\* Values of options: omitted, fewer than the default, more than 26.
OptionsValues == {0, 2, 30}

\* The analyzer linked with the engine: the stand-alone kasiski.js, the
\* one bundled in part_000, or none (kasiskiExamination is falsy and the
\* method of the same name is not attached).
Builds == {"kasiski.js", "part_000", "none"}

idle == [pc |-> "idle"]

(***************************************************************************)
(* The cipher engine: construction and its methods.  last is the call      *)
(* that returned last, with its arguments and what it returned.            *)
(***************************************************************************)
Construct(text, k) ==
    /\ key = toUpperCase(OrElse(k, SPACE))
    /\ cryptotext = toUpperCase(OrElse(text, SPACE))
    /\ plaintext = text
    /\ ciphertext = text
    /\ last = [op |-> "new", text |-> text, key |-> k]

SetText(text) ==
    /\ cryptotext' = text
    /\ last' = [op |-> "setText", text |-> text]
    /\ UNCHANGED <<key, plaintext, ciphertext, linked>>

SetKey(k) ==
    /\ key' = toUpperCase(OrElse(k, SPACE))
    /\ last' = [op |-> "setKey", key |-> k]
    /\ UNCHANGED <<cryptotext, plaintext, ciphertext, linked>>

Reset ==
    /\ plaintext' = cryptotext
    /\ ciphertext' = cryptotext
    /\ last' = [op |-> "reset"]
    /\ UNCHANGED <<cryptotext, key, linked>>

Encrypt(newKey) ==
    /\ ciphertext' = encryptText(cryptotext, newKey, key)
    /\ last' = [op |-> "encrypt", newKey |-> newKey, ret |-> ciphertext']
    /\ UNCHANGED <<cryptotext, key, plaintext, linked>>

Decrypt(newKey) ==
    /\ plaintext' = decryptText(cryptotext, newKey, key)
    /\ last' = [op |-> "decrypt", newKey |-> newKey, ret |-> plaintext']
    /\ UNCHANGED <<cryptotext, key, ciphertext, linked>>

\* Vigenere.prototype.kasiskiExamination exists only when the analyzer is
\* linked in.
KasiskiExamination ==
    /\ linked # "none"
    /\ \E result \in {kasiskiExamination(linked, cryptotext)} :
          last' = [op |-> "kasiskiExamination", ret |-> result]
    /\ UNCHANGED <<cryptotext, key, plaintext, ciphertext, linked>>

\* smashKey leaves in this.plaintext the last decryption it tried, the one
\* under "Z"; a throwing examination ends the call before any decryption.
SmashKey(length, options) ==
    \E result \in {smashKey(linked, cryptotext, key, length, options)} :
        /\ last' = [op |-> "smashKey", length |-> length, options |-> options,
                    ret |-> result]
        /\ plaintext' = IF result.thrown # "" THEN plaintext
                        ELSE decryptText(cryptotext, Letters[26], key)
        /\ UNCHANGED <<cryptotext, key, ciphertext, linked>>

\* frequencies(columns, cryptotext) reads the working text when no text is
\* given and writes no field; 0 stands for omitted columns.
Frequencies(columns, text) ==
    /\ \E result \in {frequencies(columns, text, cryptotext)} :
          last' = [op |-> "frequencies", columns |-> columns, text |-> text,
                   ret |-> result]
    /\ UNCHANGED <<cryptotext, key, plaintext, ciphertext, linked>>

\* The analyzer's search, called on the working text as the examination
\* calls it; it returns its two tables whatever the text.
RecurrenceSearch ==
    /\ linked # "none"
    /\ \E result \in {recurrenceSearch(cryptotext)} :
          last' = [op |-> "recurrenceSearch", ret |-> result]
    /\ UNCHANGED <<cryptotext, key, plaintext, ciphertext, linked>>

\* cyclicPlus and cyclicMinus are methods too; they read no field.
CyclicPlus(x, c) ==
    /\ last' = [op |-> "cyclicPlus", x |-> x, c |-> c, ret |-> cyclicPlus(x, c)]
    /\ UNCHANGED <<cryptotext, key, plaintext, ciphertext, linked>>

CyclicMinus(x, c) ==
    /\ last' = [op |-> "cyclicMinus", x |-> x, c |-> c, ret |-> cyclicMinus(x, c)]
    /\ UNCHANGED <<cryptotext, key, plaintext, ciphertext, linked>>

(***************************************************************************)
(* Spec: a session with the cipher methods.  A constructed engine is       *)
(* given a new key or a new text, then encrypts or decrypts, then has its  *)
(* outputs reset.  The cipher methods never read the analyzer.             *)
(***************************************************************************)
Init ==
    /\ \E text \in InputTexts, k \in InputKeys : Construct(text, k)
    /\ linked = "kasiski.js"
    /\ test = idle

Next ==
    /\ \/ last.op = "new" /\ \E k \in InputKeys : SetKey(k)
       \/ last.op = "new" /\ \E text \in InputTexts : SetText(text)
       \/ last.op \in {"new", "setKey", "setText"} /\ \E k \in InputKeys : Encrypt(k)
       \/ last.op \in {"new", "setKey", "setText"} /\ \E k \in InputKeys : Decrypt(k)
       \/ last.op \in {"encrypt", "decrypt"} /\ Reset
    /\ UNCHANGED test

Spec == Init /\ [][Next]_vars

(***************************************************************************)
(* SpecArith: the arithmetic primitives on every pair drawn from the       *)
(* printable ASCII characters and the empty string.                        *)
(***************************************************************************)
ArithStrings == {<<n>> : n \in 32..126} \cup {<<>>}

InitArith ==
    /\ Construct(<<>>, <<>>)
    /\ linked = "kasiski.js"
    /\ test = idle

NextArith ==
    /\ last.op = "new"
    /\ \/ \E x \in ArithStrings, c \in ArithStrings : CyclicPlus(x, c)
       \/ \E x \in ArithStrings, c \in ArithStrings : CyclicMinus(x, c)
    /\ UNCHANGED test

SpecArith == InitArith /\ [][NextArith]_vars

(***************************************************************************)
(* SpecSmash: smashKey or frequencies as the first call on a constructed   *)
(* engine, under every build.                                              *)
(***************************************************************************)
InitSmash ==
    /\ \E text \in InputTexts, k \in {<<>>, <<66, 90>>} : Construct(text, k)
    /\ linked \in Builds
    /\ test = idle

NextSmash ==
    /\ last.op = "new"
    /\ \/ \E length \in 0..MaxLength, options \in OptionsValues : SmashKey(length, options)
       \/ \E columns \in 0..MaxLength, text \in FrequencyTexts : Frequencies(columns, text)
    /\ UNCHANGED test

SpecSmash == InitSmash /\ [][NextSmash]_vars

(***************************************************************************)
(* SpecKasiski: the search and the examination of a periodic text, under   *)
(* both analyzers.                                                         *)
(***************************************************************************)
InitKasiski ==
    /\ \E text \in KasiskiTexts : Construct(text, <<>>)
    /\ linked \in {"kasiski.js", "part_000"}
    /\ test = idle

NextKasiski ==
    /\ last.op = "new"
    /\ \/ KasiskiExamination
       \/ RecurrenceSearch
    /\ UNCHANGED test

SpecKasiski == InitKasiski /\ [][NextKasiski]_vars

(***************************************************************************)
(* SpecRoundTrip: a client that encrypts a text T with a key K of letters  *)
(* and decrypts the result.  T is the text given to the constructor or to  *)
(* setText; K is the key given to the constructor (and then stored) or     *)
(* passed to encrypt and decrypt.                                          *)
(***************************************************************************)
InitRoundTrip ==
    /\ \E text \in InputTexts, k \in LetterKeys :
          /\ Construct(text, k)
          /\ test = [pc |-> "start", T |-> text, K |-> k, passKey |-> FALSE]
    /\ linked = "kasiski.js"

\* The client keeps the constructed text, or gives T through setText.
RoundTripKeep ==
    /\ test.pc = "start"
    /\ \E passKey \in BOOLEAN : test' = [test EXCEPT !.pc = "ready", !.passKey = passKey]
    /\ UNCHANGED <<cryptotext, key, plaintext, ciphertext, linked, last>>

RoundTripSetText ==
    /\ test.pc = "start"
    /\ \E text \in InputTexts, passKey \in BOOLEAN :
          /\ SetText(text)
          /\ test' = [test EXCEPT !.pc = "ready", !.T = text, !.passKey = passKey]

RoundTripEncrypt ==
    /\ test.pc = "ready"
    /\ Encrypt(IF test.passKey THEN test.K ELSE <<>>)
    /\ test' = [test EXCEPT !.pc = "encrypted"]

\* The resulting ciphertext is made the working text.
RoundTripFeed ==
    /\ test.pc = "encrypted"
    /\ SetText(last.ret)
    /\ test' = [test EXCEPT !.pc = "fed"]

RoundTripDecrypt ==
    /\ test.pc = "fed"
    /\ Decrypt(IF test.passKey THEN test.K ELSE <<>>)
    /\ test' = [test EXCEPT !.pc = "done"]

NextRoundTrip ==
    \/ RoundTripKeep
    \/ RoundTripSetText
    \/ RoundTripEncrypt
    \/ RoundTripFeed
    \/ RoundTripDecrypt

SpecRoundTrip == InitRoundTrip /\ [][NextRoundTrip]_vars

(***************************************************************************)
(* The properties.  The letter arithmetic is restated here on alphabet     *)
(* indices (A = 0), apart from the code's character-code arithmetic.       *)
(***************************************************************************)
isLetter(x) == Len(x) = 1 /\ x[1] \in 65..90

index(x) == x[1] - 65

letterAt(n) == <<65 + n>>

\* The sum and the difference on indices, modulo 26, in 0..25.
addLetters(x, c) ==
    IF isLetter(x) /\ isLetter(c)
    THEN letterAt(CHOOSE r \in 0..25 : \E q \in 0..1 : index(x) + index(c) = r + 26 * q)
    ELSE x

subLetters(x, c) ==
    IF isLetter(x) /\ isLetter(c)
    THEN letterAt(CHOOSE r \in 0..25 : \E q \in -1..0 : index(x) - index(c) = r + 26 * q)
    ELSE x

\* C1: round trip. Once the client has encrypted T with K, made the
\* resulting ciphertext the working text and decrypted it with K, the
\* result is uppercase(T).
C1_RoundTrip == test.pc = "done" => last.ret = toUpperCase(test.T)

\* C2: identity key. encrypt(" ") returns uppercase(T) for the working text
\* T, whether T came from the constructor or from setText.
C2_IdentityKey ==
    (last.op = "encrypt" /\ last.newKey = SPACE) => last.ret = toUpperCase(cryptotext)

\* C3: the output of encrypt (decrypt) is as long as the working text and
\* its character at every position i is the cyclic sum (difference) of
\* text[i] and key[i mod len(key)], i counting every character position.
C3_PositionWise ==
    LET k == effectiveKey(last.newKey, key)
    IN  /\ last.op = "encrypt" =>
              /\ Len(last.ret) = Len(cryptotext)
              /\ \A i \in 0..(Len(cryptotext) - 1) :
                    charAt(last.ret, i) =
                        addLetters(charAt(cryptotext, i), charAt(k, i % Len(k)))
        /\ last.op = "decrypt" =>
              /\ Len(last.ret) = Len(cryptotext)
              /\ \A i \in 0..(Len(cryptotext) - 1) :
                    charAt(last.ret, i) =
                        subLetters(charAt(cryptotext, i), charAt(k, i % Len(k)))

\* encrypt(" Z") under the key "BZ": the space at position 0 is kept and
\* consumes "B", so the "Z" at position 1 meets "Z" and becomes "Y".
C3_Witness ==
    /\ last.op = "encrypt"
    /\ cryptotext = <<32, 90>>
    /\ effectiveKey(last.newKey, key) = <<66, 90>>
    /\ last.ret = <<32, 89>>

\* C4: on two upper-case letters cyclicPlus (cyclicMinus) returns the letter
\* whose index is the sum (difference) of the indices modulo 26, always in
\* A-Z; if either argument is no upper-case letter it returns x.
C4_CyclicArithmetic ==
    /\ last.op = "cyclicPlus" => last.ret = addLetters(last.x, last.c)
    /\ last.op = "cyclicMinus" => last.ret = subLetters(last.x, last.c)
    /\ last.op \in {"cyclicPlus", "cyclicMinus"} =>
          IF isLetter(last.x) /\ isLetter(last.c)
          THEN isLetter(last.ret)
          ELSE last.ret = last.x

\* cyclicMinus("A", "B") = "Z": a negative difference.
C4_Witness ==
    /\ last.op = "cyclicMinus"
    /\ last.x = <<65>>
    /\ last.c = <<66>>
    /\ last.ret = <<90>>

examined == last.op = "kasiskiExamination" /\ last.ret.thrown = ""

\* C5: a suggested key length is the factor of the first entry of the
\* ranking whose factor is >= 4, so it is never 2 or 3.
C5_SuggestionSkipsShort ==
    examined =>
        LET ranks == last.ret.frequencyRanks
        IN  /\ last.ret.firstKeyLength >= 4
            /\ \E n \in 1..Len(ranks) :
                  /\ ranks[n].factor = last.ret.firstKeyLength
                  /\ \A m \in 1..(n - 1) : ranks[m].factor < 4

\* C6: on a text with no repeated non-overlapping substring the examination
\* surfaces an explicit "no candidates" result.
C6_NoCandidates ==
    (last.op = "kasiskiExamination" /\ Len(recorded(cryptotext)) = 0) =>
        last.ret.thrown = "NoCandidates"

\* C7: smashKey without a length uses the suggested key length of the
\* examination, and key length 1 when the examination yields nothing; it
\* returns a result either way.
C7_LengthFallback ==
    (last.op = "smashKey" /\ last.length = 0 /\ linked # "none") =>
        LET examination == kasiskiExamination(linked, cryptotext)
        IN  /\ last.ret.thrown = ""
            /\ Len(last.ret.firstKey) =
                  IF examination.thrown = "" THEN examination.firstKeyLength ELSE 1

\* C8: every column's candidate list holds exactly min(options, 26)
\* entries, 3 when options is omitted.
C8_OptionsCap ==
    (last.op = "smashKey" /\ last.ret.thrown = "") =>
        LET given == IF last.options = 0 THEN 3 ELSE last.options
            cap == IF given < 26 THEN given ELSE 26
        IN  \A column \in 1..Len(last.ret.candidateTable) :
                Len(last.ret.candidateTable[column]) = cap

\* C9: firstKey has exactly L letters for the key length L, its letter at
\* each column is the first entry of the column's list, no entry of the
\* list has a lower score, and assemble on L zero indices returns firstKey.
C9_FirstKey ==
    (last.op = "smashKey" /\ last.ret.thrown = "") =>
        LET L == IF last.length # 0 THEN last.length
                 ELSE IF linked = "none" THEN 1
                 ELSE kasiskiExamination(linked, cryptotext).firstKeyLength
            table == last.ret.candidateTable
            firstKey == last.ret.firstKey
        IN  /\ Len(firstKey) = L
            /\ Len(table) = L
            /\ \A column \in 1..L :
                  /\ isLetter(<<firstKey[column]>>)
                  /\ <<firstKey[column]>> = table[column][1].letter
                  /\ \A n \in 1..Len(table[column]) :
                        \/ isNaN(table[column][n].score)
                        \/ table[column][1].score <= table[column][n].score
            /\ assemble(table, [column \in 1..L |-> 0]) = firstKey

\* smashKey(2) on "ZZ": each column holds one "Z", which the shift "V"
\* turns into "E", the most frequent letter.
C9_Witness ==
    /\ last.op = "smashKey"
    /\ last.length = 2
    /\ cryptotext = <<90, 90>>
    /\ last.ret.thrown = ""
    /\ last.ret.firstKey = <<86, 86>>

\* C10: for a text that repeats a block of 5 distinct letters, a suggested
\* key length is 5, a multiple of 5 or a divisor of 5 that is >= 4.
C10_PeriodFive ==
    (examined /\ linked = "kasiski.js" /\ cryptotext = periodicText(5, Len(cryptotext))) =>
        /\ last.ret.firstKeyLength >= 4
        /\ \/ last.ret.firstKeyLength % 5 = 0
           \/ 5 % last.ret.firstKeyLength = 0

\* C11: frequencies on a column with no upper-case letter reports an
\* explicit score-undefined marker for that column; its score is not the
\* NaN of the division by the zero letter total.
C11_DegenerateColumn ==
    last.op = "frequencies" =>
        \A column \in DOMAIN last.ret :
            last.ret[column].total = 0 => ~isNaN(last.ret[column].score)

searched == last.op = "recurrenceSearch"

\* The substring s stands in the text at index j.
appearsAt(text, s, j) ==
    /\ j >= 0
    /\ j + Len(s) <= Len(text)
    /\ SubSeq(text, j + 1, j + Len(s)) = s

\* The indices at or after from at which s stands in the text.
appearancesFrom(text, s, from) == {j \in from..Len(text) : appearsAt(text, s, j)}

\* The least of a non-empty set of indices.
least(S) == CHOOSE j \in S : \A i \in S : j <= i

\* C12: the gap of every recorded occurrence of a substring of length k is
\* the distance from the occurrence's start to the first appearance of the
\* substring at or after indexOfAppearance + k, never to a later one.
C12_GapToNext ==
    searched =>
        \A s \in DOMAIN last.ret.substringTable :
            \A n \in 1..Len(last.ret.substringTable[s]) :
                LET o == last.ret.substringTable[s][n]
                    following == appearancesFrom(cryptotext, s,
                                                 o.indexOfAppearance + Len(s))
                IN  /\ following # {}
                    /\ o.indexOfAppearance + o.gapToNextAppearance = least(following)

\* The substring lengths and, for a length, the start indices the search
\* covers: k in 2..floor(len/2)-1, start in 0..len-2k-1.
searchLengths(text) == {k \in 2..Len(text) : k <= (Len(text) \div 2) - 1}

searchStarts(text, k) == 0..(Len(text) - 2 * k - 1)

\* The gaps recorded under s with the given start, in the order recorded.
gapsUnder(table, s, start) ==
    IF s \in DOMAIN table
    THEN LET own == SelectSeq(table[s], LAMBDA o : o.indexOfAppearance = start)
         IN  [n \in 1..Len(own) |-> own[n].gapToNextAppearance]
    ELSE <<>>

\* gaps are those of the chained matches of s from start: the first match
\* is the first appearance at or after start + k, each next match the first
\* appearance at or after the previous match + k, and after the last match
\* there is none.
isChain(text, s, start, gaps) ==
    LET k == Len(s)
        from(j) == IF j = 0 THEN start + k ELSE start + gaps[j] + k
    IN  /\ \A j \in 1..Len(gaps) :
              /\ appearancesFrom(text, s, from(j - 1)) # {}
              /\ start + gaps[j] = least(appearancesFrom(text, s, from(j - 1)))
        /\ appearancesFrom(text, s, from(Len(gaps))) = {}

entriesOf(table) == UNION {{<<s, n>> : n \in 1..Len(table[s])} : s \in DOMAIN table}

RECURSIVE sumFrequencies(_, _)
sumFrequencies(factorTable, gaps) ==
    IF gaps = {} THEN 0
    ELSE LET g == CHOOSE x \in gaps : TRUE
         IN  factorTable[g].frequency + sumFrequencies(factorTable, gaps \ {g})

\* C15: in the result of the examination a factor f has a candidate entry
\* if and only if f is in the recorded factor list of some gap; its
\* aggregate frequency is the sum of the frequencies of the gaps whose list
\* holds f; frequencyRanks lists those entries in non-increasing order of
\* frequency, entries of equal frequency in their original (index) order.
C15_Ranking ==
    examined =>
        LET factorTable == last.ret.factorTable
            candidateFreqs == last.ret.candidateFreqs
            ranks == last.ret.frequencyRanks
        IN  /\ DOMAIN candidateFreqs =
                  UNION {factorTable[g].factorList : g \in DOMAIN factorTable}
            /\ \A f \in DOMAIN candidateFreqs :
                  /\ candidateFreqs[f].factor = f
                  /\ candidateFreqs[f].frequency =
                        sumFrequencies(factorTable,
                            {g \in DOMAIN factorTable : f \in factorTable[g].factorList})
            /\ Len(ranks) = Cardinality(DOMAIN candidateFreqs)
            /\ {ranks[n] : n \in 1..Len(ranks)} =
                  {candidateFreqs[f] : f \in DOMAIN candidateFreqs}
            /\ \A m \in 1..Len(ranks), n \in 1..Len(ranks) :
                  m < n =>
                      \/ ranks[m].frequency > ranks[n].frequency
                      \/ /\ ranks[m].frequency = ranks[n].frequency
                         /\ ranks[m].factor < ranks[n].factor

\* The examination of 26 characters of "ABCABC...": factor 3 gathers the
\* frequency 181 and factor 2 the frequency 179, so the sort puts the entry
\* of 3 before that of 2.
C15_Witness ==
    /\ examined
    /\ cryptotext = periodicText(3, 26)
    /\ Len(last.ret.frequencyRanks) = 3
    /\ last.ret.frequencyRanks[1] = [factor |-> 3, frequency |-> 181]
    /\ last.ret.frequencyRanks[2] = [factor |-> 2, frequency |-> 179]
    /\ last.ret.frequencyRanks[3] = [factor |-> 4, frequency |-> 1]

\* C16: smashKey performs no hidden mutation: after it returns, the working
\* text, the stored key, the stored plaintext output and the stored
\* ciphertext output equal their values before the call.
C16_NoHiddenMutation ==
    [][last'.op = "smashKey" =>
          /\ cryptotext' = cryptotext
          /\ key' = key
          /\ plaintext' = plaintext
          /\ ciphertext' = ciphertext]_vars

====
